---- MODULE Spec2Model ----
(***************************************************************************)
(* Model of the device status-tracking engine, class TimeTracker of        *)
(* src/pi_control/time_tracker.py.                                         *)
(*                                                                         *)
(* Time is counted in whole seconds.  A datetime is the number of seconds  *)
(* since 2024-01-01 00:00:00 (local time); a timedelta is Python's         *)
(* normalised pair (days, seconds).  Microseconds are not modelled.        *)
(* A dict is a function whose DOMAIN is its key set; a defaultdict is a    *)
(* dict whose __getitem__ inserts the default value for a missing key.     *)
(*                                                                         *)
(* Every public method holds self._lock (an RLock) from its first to its   *)
(* last statement, so a method is one atomic action, except save_data,     *)
(* which is split at its disk calls so that the process can die between    *)
(* them.  While a save is in progress the lock is held and no other method *)
(* of the ledger can run.  The lock itself, and the threads that wait for  *)
(* it, take it, run a body step by step and release it, are modelled by    *)
(* the steps Call, Enter, Body and Exit of the specification SpecThreads.  *)
(***************************************************************************)
EXTENDS Integers, Sequences, FiniteSets, TLC

VARIABLES
    clock,           \* datetime.now(): the wall clock, which can be set back
    start_time,      \* self.start_time
    current_status,  \* self.current_status: device -> [status, since]
    history,         \* self.history: device -> status -> timedelta
    daily_records,   \* self.daily_records: date -> device -> status -> seconds
    disk,            \* the files on disk: path -> file
    savePc,          \* position of the thread inside save_data
    pending,         \* the local variable data of save_data
    budget,          \* number of update_status calls, of saves and restarts,
                     \* of settings back of the clock and of calls by the
                     \* threads still to come
    track,           \* history variable: per device, the record calls so far
    returned,        \* the value returned by the last call of save_data
    lock,            \* self._lock: the thread that owns it and how many times
    thread,          \* per thread: the method it is in and its position there
    copied           \* the mapping that get_all_daily_records returned to
                     \* its caller, as the caller holds it

vars == <<clock, start_time, current_status, history, daily_records,
          disk, savePc, pending, budget, track, returned, lock, thread, copied>>

(***************************************************************************)
(* Bounds of the model                                                     *)
(***************************************************************************)
ClockStart == 86385
MaxRecords == 3
MaxRegress == 1
DiskMaxRecords == 2
MaxDiskOps == 2
LoadMaxRecords == 1
LoadMaxDiskOps == 1
FaultMaxRecords == 1
FaultMaxDiskOps == 2
AutoMaxRecords == 2     \* update_status calls while the auto-save thread runs
CopyMaxRecords == 2     \* update_status calls around get_all_daily_records
CopyMaxWrites == 1      \* writes of the caller to the mapping it was given
KeysMaxRecords == 2     \* update_status calls on a file with a short daily entry
RunMaxRecords == 2      \* update_status calls in a ledger that starts empty
RunMaxDiskOps == 2      \* save_data, reset_stats and restarts there
ThreadMaxCalls == 2
Devices == {"PI-65", "PI-66"}

\* the device that is polled; the other one is known from the data file of
\* the earlier run and is only queried and reset
Polled == {"PI-65"}

\* the instants at which the clock is read: T0, T0+10s, T0+25s, T0+30s, with
\* midnight between the second and the third
ClockValues == {ClockStart, ClockStart + 10, ClockStart + 25, ClockStart + 30}

(***************************************************************************)
(* Values                                                                  *)
(***************************************************************************)
SecondsPerDay == 86400
Status == {"running", "online", "offline"}

None == [some |-> FALSE]
Some(x) == [some |-> TRUE, val |-> x]

EmptyDict == [k \in {} |-> 0]

\* d[key] = value on a dict
DictSet(d, key, value) == [k \in DOMAIN d \cup {key} |-> IF k = key THEN value ELSE d[k]]

\* del d[key]
DictDel(d, key) == [k \in DOMAIN d \ {key} |-> d[k]]

\* timedelta(seconds=n): normalised to 0 <= seconds < 86400
Timedelta(n) == [days |-> n \div SecondsPerDay, seconds |-> n % SecondsPerDay]

\* timedelta.total_seconds()
total_seconds(td) == td.days * SecondsPerDay + td.seconds

\* timedelta + timedelta
TimedeltaAdd(a, b) == Timedelta(total_seconds(a) + total_seconds(b))

\* the default factory of self.history
DefaultHistory == [s \in Status |-> Timedelta(0)]

\* the default factory of the inner dict of self.daily_records
DefaultDaily == [s \in Status |-> 0]

Pad2(n) == IF n < 10 THEN "0" \o ToString(n) ELSE ToString(n)

\* now.strftime('%Y-%m-%d'), for a datetime in January 2024
strftime(now) == "2024-01-" \o Pad2(now \div SecondsPerDay + 1)

\* datetime.isoformat(): the broken-down time written to the file
isoformat(t) ==
    [day |-> t \div SecondsPerDay + 1,
     hour |-> (t % SecondsPerDay) \div 3600,
     minute |-> (t % 3600) \div 60,
     second |-> t % 60]

\* datetime.fromisoformat()
fromisoformat(iso) ==
    (iso.day - 1) * SecondsPerDay + iso.hour * 3600 + iso.minute * 60 + iso.second

\* _format_timedelta: HH:MM:SS, hours not wrapped
format_timedelta(td) ==
    LET total == total_seconds(td)
        hours == total \div 3600
        minutes == (total % 3600) \div 60
        seconds == total % 60
    IN  Pad2(hours) \o ":" \o Pad2(minutes) \o ":" \o Pad2(seconds)

\* self.history[device_name] on the defaultdict: the table after the lookup
HistoryTouch(h, device_name) ==
    IF device_name \in DOMAIN h THEN h ELSE DictSet(h, device_name, DefaultHistory)

\* self.daily_records[today][device_name] on the nested defaultdict
DailyTouch(dr, today, device_name) ==
    LET withDate == IF today \in DOMAIN dr THEN dr ELSE DictSet(dr, today, EmptyDict)
    IN  IF device_name \in DOMAIN withDate[today]
        THEN withDate
        ELSE DictSet(withDate, today, DictSet(withDate[today], device_name, DefaultDaily))

\* threading.RLock(): not owned
Unlocked == [owner |-> "", count |-> 0]

\* the threads of the process: the workers of the pool that call
\* update_status and get_device_stats, the auto-save thread
Threads == {"worker-1", "worker-2"}

\* a thread that is in no method of the ledger.  op is the method a thread
\* is in and outer the method that called it; pc is "enter" before the with
\* statement, then a position in the body, then "exit" at the end of the
\* with block; now and old are locals of update_status, todo is the rest of
\* the loop of get_all_devices_stats, raised tells that an exception is
\* leaving the method
Idle ==
    [op |-> "", pc |-> "idle", device |-> "", status |-> "", arg |-> None,
     outer |-> "", now |-> 0, old |-> None, todo |-> {}, raised |-> FALSE]

(***************************************************************************)
(* The durable file.  json.dump writes the four top-level entries of data  *)
(* in order; a file holding fewer than four is cut-off JSON.               *)
(***************************************************************************)
AbsentFile == [exists |-> FALSE, content |-> <<>>]

\* self.data_file
data_file == "time_tracker.json"

\* as temp_file, but the data file itself is written
temp_file_direct == data_file

\* temp_file = f"{self.data_file}.tmp"
temp_file == data_file \o ".tmp"

Paths == {data_file, data_file \o ".tmp"}

\* open(path, 'w'): the file exists and is empty
open_w(dsk, path) == [dsk EXCEPT ![path] = [exists |-> TRUE, content |-> <<>>]]

\* f.write(entry)
write(dsk, path, entry) ==
    [dsk EXCEPT ![path] = [exists |-> TRUE, content |-> Append(dsk[path].content, entry)]]

\* os.replace(src, dst)
os_replace(dsk, src, dst) ==
    IF src = dst THEN dsk ELSE [dsk EXCEPT ![dst] = dsk[src], ![src] = AbsentFile]

FileKeys == <<"start_time", "last_save", "history", "daily_records">>

\* as json_load, but a text that is cut off is parsed as far as it goes
json_load_lenient(f) ==
    Some([k \in {f.content[i].key : i \in 1..Len(f.content)} |->
            (CHOOSE e \in {f.content[i] : i \in 1..Len(f.content)} : e.key = k).value])

\* json.load(f): the parsed object, or None when the text is not JSON
json_load(f) ==
    IF Len(f.content) = Len(FileKeys)
    THEN Some([k \in {f.content[i].key : i \in 1..Len(f.content)} |->
                 (CHOOSE e \in {f.content[i] : i \in 1..Len(f.content)} : e.key = k).value])
    ELSE None

\* the dict data built by save_data
BuildData(st, now, h, dr) ==
    << [key |-> "start_time", value |-> isoformat(st)],
       [key |-> "last_save", value |-> isoformat(now)],
       [key |-> "history",
        value |-> [device \in DOMAIN h |->
                     [status \in DOMAIN h[device] |-> total_seconds(h[device][status])]]],
       [key |-> "daily_records", value |-> dr] >>

\* json.dump(data, f) writing entry k of data while the daily table is dr:
\* 'daily_records': dict(self.daily_records) copies the dates only, so the
\* entry of each date is the ledger's own dict, serialized as it is when
\* json.dump reaches it
Dumped(data, dr, k) ==
    IF data[k].key = "daily_records"
    THEN [key |-> data[k].key,
          value |-> [date \in DOMAIN data[k].value |->
                       IF date \in DOMAIN dr THEN dr[date] ELSE data[k].value[date]]]
    ELSE data[k]

\* the loop of load_data over data['history']
LoadHistory(data) ==
    IF "history" \in DOMAIN data
    THEN [device \in {dev \in DOMAIN data.history : DOMAIN data.history[dev] # {}} |->
            [status \in Status \cup DOMAIN data.history[device] |->
                IF status \in DOMAIN data.history[device]
                THEN Timedelta(data.history[device][status])
                ELSE DefaultHistory[status]]]
    ELSE EmptyDict

\* as LoadDaily, but data['daily_records'] is not read
LoadDailyNone(data) == EmptyDict

\* the loop of load_data over data['daily_records']: a date is created
\* only when it has a device
LoadDaily(data) ==
    IF "daily_records" \in DOMAIN data
    THEN LET src == data.daily_records
             dates == {date \in DOMAIN src : DOMAIN src[date] # {}}
         IN  [date \in dates |-> [device \in DOMAIN src[date] |-> src[date][device]]]
    ELSE EmptyDict

\* as LoadStartTime, but the start_time of the file is not read
LoadStartTimeNow(data, now) == now

\* self.start_time after load_data, constructed at time now
LoadStartTime(data, now) ==
    IF "start_time" \in DOMAIN data THEN fromisoformat(data.start_time) ELSE now

(***************************************************************************)
(* update_status                                                           *)
(***************************************************************************)
\* as ClampDuration, without the guard against a clock set back
ClampDurationNone(duration) == duration

\* if duration.total_seconds() < 0: duration = timedelta(0)
ClampDuration(duration) ==
    IF total_seconds(duration) < 0 THEN Timedelta(0) ELSE duration

\* as AddHistory, with = in place of +=
AddHistoryAssign(h, device_name, old_status, duration) ==
    LET h1 == HistoryTouch(h, device_name)
    IN  DictSet(h1, device_name, DictSet(h1[device_name], old_status, duration))

\* as AddHistory, but the default factory hands the same dict to every
\* device, so that the += shows in the totals of all of them
AddHistoryShared(h, device_name, old_status, duration) ==
    LET h1 == HistoryTouch(h, device_name)
    IN  [device \in DOMAIN h1 |->
            DictSet(h1[device], old_status,
                    TimedeltaAdd(h1[device_name][old_status], duration))]

\* self.history[device_name][old_status] += duration
AddHistory(h, device_name, old_status, duration) ==
    LET h1 == HistoryTouch(h, device_name)
    IN  DictSet(h1, device_name,
                DictSet(h1[device_name], old_status,
                        TimedeltaAdd(h1[device_name][old_status], duration)))

\* as AddDaily, with = in place of +=
AddDailyAssign(dr, today, device_name, old_status, duration) ==
    LET d1 == DailyTouch(dr, today, device_name)
    IN  DictSet(d1, today,
                DictSet(d1[today], device_name,
                        DictSet(d1[today][device_name], old_status,
                                total_seconds(duration))))

\* self.daily_records[today][device_name][old_status] += duration.total_seconds()
AddDaily(dr, today, device_name, old_status, duration) ==
    LET d1 == DailyTouch(dr, today, device_name)
    IN  DictSet(d1, today,
                DictSet(d1[today], device_name,
                        DictSet(d1[today][device_name], old_status,
                                d1[today][device_name][old_status] + total_seconds(duration))))

\* as CreditedStatus, but the new status is credited
CreditedStatusNew(cs, device_name, new_status) == new_status

\* old_status = self.current_status[device_name]['status']: the status that
\* is credited with the duration
CreditedStatus(cs, device_name, new_status) == cs[device_name].status

\* as OpenTransition, but since is kept when the status does not change
OpenTransitionKeepSince(cs, device_name, new_status, now) ==
    IF device_name \in DOMAIN cs /\ cs[device_name].status = new_status
    THEN cs
    ELSE DictSet(cs, device_name, [status |-> new_status, since |-> now])

\* as OpenTransition, but since never moves back
OpenTransitionMax(cs, device_name, new_status, now) ==
    DictSet(cs, device_name,
            [status |-> new_status,
             since |-> IF device_name \in DOMAIN cs /\ cs[device_name].since > now
                       THEN cs[device_name].since ELSE now])

\* self.current_status[device_name] = {'status': new_status, 'since': now}
OpenTransition(cs, device_name, new_status, now) ==
    DictSet(cs, device_name, [status |-> new_status, since |-> now])

\* the sum of the three cumulative totals of a device, in seconds
SumHistory(h, device_name) ==
    IF device_name \in DOMAIN h
    THEN total_seconds(h[device_name]["running"]) + total_seconds(h[device_name]["online"])
         + total_seconds(h[device_name]["offline"])
    ELSE 0

\* history variable, per device with an open transition: the time of its
\* first update_status call since the ledger was constructed or the device
\* reset (first), the sum of its cumulative totals at that call (base),
\* whether every later call came at a later time than the one before
\* (increasing), whether a call came at an earlier time (regressed), and how
\* many calls of update_status(d, "offline") at T0 on an empty ledger,
\* update_status(d, "online") at T0+10s, update_status(d, "running") at
\* T0+25s the calls so far are (scenario; 0 when they are not these calls)
TrackRecord(device_name, new_status, now) ==
    IF device_name \notin DOMAIN track
    THEN DictSet(track, device_name,
                 [first |-> now, base |-> SumHistory(history, device_name),
                  increasing |-> TRUE, regressed |-> FALSE,
                  scenario |-> IF /\ new_status = "offline"
                                  /\ history = EmptyDict
                                  /\ daily_records = EmptyDict
                                  /\ current_status = EmptyDict
                               THEN 1 ELSE 0])
    ELSE LET t == track[device_name]
         IN  DictSet(track, device_name,
                     [first |-> t.first, base |-> t.base,
                      increasing |-> t.increasing /\ now > current_status[device_name].since,
                      regressed |-> t.regressed \/ now < current_status[device_name].since,
                      scenario |->
                         IF t.scenario = 1 /\ new_status = "online" /\ now = t.first + 10 THEN 2
                         ELSE IF t.scenario = 2 /\ new_status = "running" /\ now = t.first + 25 THEN 3
                         ELSE 0])

\* as update_status, but the data file is opened for writing at the end
update_status_saving(device_name, new_status) ==
    /\ savePc = "idle"
    /\ budget.records > 0
    /\ budget' = [budget EXCEPT !.records = @ - 1]
    /\ LET now == clock
           today == strftime(now)
           open == device_name \in DOMAIN current_status
           old_status == CreditedStatus(current_status, device_name, new_status)
           since == current_status[device_name].since
           duration == ClampDuration(Timedelta(now - since))
           \* KeyError at the += on self.history
           raise1 == open /\ old_status \notin DOMAIN HistoryTouch(history, device_name)[device_name]
           \* KeyError at the += on self.daily_records
           raise2 == open /\ ~raise1
                     /\ old_status \notin DOMAIN DailyTouch(daily_records, today, device_name)[today][device_name]
       IN  /\ history' = IF ~open THEN history
                         ELSE IF raise1 THEN HistoryTouch(history, device_name)
                         ELSE AddHistory(history, device_name, old_status, duration)
           /\ daily_records' = IF ~open \/ raise1 THEN daily_records
                               ELSE IF raise2 THEN DailyTouch(daily_records, today, device_name)
                               ELSE AddDaily(daily_records, today, device_name, old_status, duration)
           /\ current_status' = IF raise1 \/ raise2 THEN current_status
                                ELSE OpenTransition(current_status, device_name, new_status, now)
           /\ track' = IF raise1 \/ raise2 THEN track
                       ELSE TrackRecord(device_name, new_status, now)
    /\ disk' = open_w(disk, data_file)
    /\ UNCHANGED <<copied, clock, start_time, savePc, pending, returned, lock, thread>>

\* update_status(device_name, new_status), lines 116-140
update_status(device_name, new_status) ==
    /\ savePc = "idle"
    /\ budget.records > 0
    /\ budget' = [budget EXCEPT !.records = @ - 1]
    /\ LET now == clock
           today == strftime(now)
           open == device_name \in DOMAIN current_status
           old_status == CreditedStatus(current_status, device_name, new_status)
           since == current_status[device_name].since
           duration == ClampDuration(Timedelta(now - since))
           \* KeyError at the += on self.history
           raise1 == open /\ old_status \notin DOMAIN HistoryTouch(history, device_name)[device_name]
           \* KeyError at the += on self.daily_records
           raise2 == open /\ ~raise1
                     /\ old_status \notin DOMAIN DailyTouch(daily_records, today, device_name)[today][device_name]
       IN  /\ history' = IF ~open THEN history
                         ELSE IF raise1 THEN HistoryTouch(history, device_name)
                         ELSE AddHistory(history, device_name, old_status, duration)
           /\ daily_records' = IF ~open \/ raise1 THEN daily_records
                               ELSE IF raise2 THEN DailyTouch(daily_records, today, device_name)
                               ELSE AddDaily(daily_records, today, device_name, old_status, duration)
           /\ current_status' = IF raise1 \/ raise2 THEN current_status
                                ELSE OpenTransition(current_status, device_name, new_status, now)
           /\ track' = IF raise1 \/ raise2 THEN track
                       ELSE TrackRecord(device_name, new_status, now)
    /\ UNCHANGED <<copied, clock, start_time, disk, savePc, pending, returned, lock, thread>>

(***************************************************************************)
(* get_device_stats, get_all_devices_stats                                 *)
(***************************************************************************)
\* as DeviceStats, but current_status starts as 'online'
DeviceStatsDefaultOnline(cs, h, device_name, now) ==
    LET open == device_name \in DOMAIN cs
        current_status_ == IF open THEN cs[device_name].status ELSE "online"
        current_duration == IF open
                            THEN ClampDuration(Timedelta(now - cs[device_name].since))
                            ELSE Timedelta(0)
        device_history == HistoryTouch(h, device_name)[device_name]
        total(status) == IF current_status_ = status
                         THEN TimedeltaAdd(device_history[status], current_duration)
                         ELSE device_history[status]
    IN  [running |-> format_timedelta(total("running")),
         online |-> format_timedelta(total("online")),
         offline |-> format_timedelta(total("offline")),
         running_seconds |-> total_seconds(total("running")),
         online_seconds |-> total_seconds(total("online")),
         offline_seconds |-> total_seconds(total("offline")),
         current_status |-> current_status_,
         current_duration |-> format_timedelta(current_duration)]

\* the dict returned by get_device_stats, computed at time now
DeviceStats(cs, h, device_name, now) ==
    LET open == device_name \in DOMAIN cs
        current_status_ == IF open THEN cs[device_name].status ELSE "offline"
        current_duration == IF open
                            THEN IF total_seconds(Timedelta(now - cs[device_name].since)) < 0
                                 THEN Timedelta(0)
                                 ELSE Timedelta(now - cs[device_name].since)
                            ELSE Timedelta(0)
        device_history == HistoryTouch(h, device_name)[device_name]
        total_running == IF current_status_ = "running"
                         THEN TimedeltaAdd(device_history["running"], current_duration)
                         ELSE device_history["running"]
        total_online == IF current_status_ = "online"
                        THEN TimedeltaAdd(device_history["online"], current_duration)
                        ELSE device_history["online"]
        total_offline == IF current_status_ \notin {"running", "online"}
                         THEN TimedeltaAdd(device_history["offline"], current_duration)
                         ELSE device_history["offline"]
    IN  [running |-> format_timedelta(total_running),
         online |-> format_timedelta(total_online),
         offline |-> format_timedelta(total_offline),
         running_seconds |-> total_seconds(total_running),
         online_seconds |-> total_seconds(total_online),
         offline_seconds |-> total_seconds(total_offline),
         current_status |-> current_status_,
         current_duration |-> format_timedelta(current_duration)]

\* self.history after get_device_stats: the lookup self.history[device_name]
StatsHistory(h, device_name) == HistoryTouch(h, device_name)

get_device_stats(device_name) ==
    /\ savePc = "idle"
    /\ history' = StatsHistory(history, device_name)
    /\ UNCHANGED <<copied, clock, start_time, current_status, daily_records,
                   disk, savePc, pending, budget, track, returned, lock, thread>>

\* all_devices of get_all_devices_stats
AllDevices(cs, h) == DOMAIN cs \cup DOMAIN h

get_all_devices_stats ==
    /\ savePc = "idle"
    /\ history' = [device \in AllDevices(current_status, history) |->
                     StatsHistory(history, device)[device]]
    /\ UNCHANGED <<copied, clock, start_time, current_status, daily_records,
                   disk, savePc, pending, budget, track, returned, lock, thread>>

(***************************************************************************)
(* save_data: build data and open the temporary file, write it, replace    *)
(* the data file by it                                                     *)
(***************************************************************************)
save_begin ==
    /\ savePc = "idle"
    /\ budget.disk > 0
    /\ budget' = [budget EXCEPT !.disk = @ - 1]
    /\ pending' = BuildData(start_time, clock, history, daily_records)
    /\ disk' = open_w(disk, temp_file)
    /\ savePc' = "writing"
    /\ UNCHANGED <<copied, clock, start_time, current_status, history, daily_records, track,
                   returned, lock, thread>>

\* as auto_save, but the loop ends when save_data has returned False
auto_save_until_failure ==
    /\ returned # Some(FALSE)
    /\ savePc = "idle"
    /\ pending' = BuildData(start_time, clock, history, daily_records)
    /\ disk' = open_w(disk, temp_file)
    /\ savePc' = "writing"
    /\ UNCHANGED <<copied, clock, start_time, current_status, history, daily_records,
                   budget, track, returned, lock, thread>>

\* main_new.py, auto_save: one turn of while True, time.sleep(300) and the
\* call of save_data, up to the open of the temporary file; the value that
\* the last save_data returned is not looked at
auto_save ==
    /\ savePc = "idle"
    /\ pending' = BuildData(start_time, clock, history, daily_records)
    /\ disk' = open_w(disk, temp_file)
    /\ savePc' = "writing"
    /\ UNCHANGED <<copied, clock, start_time, current_status, history, daily_records,
                   budget, track, returned, lock, thread>>

\* json.dump(data, f): one top-level entry reaches the disk
save_write ==
    /\ savePc = "writing"
    /\ Len(disk[temp_file].content) < Len(pending)
    /\ disk' = write(disk, temp_file,
                      Dumped(pending, daily_records, Len(disk[temp_file].content) + 1))
    /\ UNCHANGED <<copied, clock, start_time, current_status, history, daily_records,
                   savePc, pending, budget, track, returned, lock, thread>>

\* os.replace(temp_file, self.data_file); return True
save_replace ==
    /\ savePc = "writing"
    /\ Len(disk[temp_file].content) = Len(pending)
    /\ disk' = os_replace(disk, temp_file, data_file)
    /\ savePc' = "idle"
    /\ pending' = <<>>
    /\ returned' = Some(TRUE)
    /\ UNCHANGED <<copied, clock, start_time, current_status, history, daily_records,
                   budget, track, lock, thread>>

\* open(temp_file, 'w') raises OSError: except Exception, return False
save_open_fail ==
    /\ savePc = "idle"
    /\ budget.disk > 0
    /\ budget' = [budget EXCEPT !.disk = @ - 1]
    /\ returned' = Some(FALSE)
    /\ UNCHANGED <<copied, clock, start_time, current_status, history, daily_records,
                   disk, savePc, pending, track, lock, thread>>

\* as save_fail, but the except clause removes the files of the save
save_fail_cleanup ==
    /\ savePc = "writing"
    /\ savePc' = "idle"
    /\ pending' = <<>>
    /\ returned' = Some(FALSE)
    /\ disk' = [path \in Paths |-> AbsentFile]
    /\ UNCHANGED <<copied, clock, start_time, current_status, history, daily_records,
                   budget, track, lock, thread>>

\* f.write inside json.dump, f.close or os.replace raises OSError: the
\* temporary file stays as far as it was written, the data file is not
\* touched; except Exception, return False
save_fail ==
    /\ savePc = "writing"
    /\ savePc' = "idle"
    /\ pending' = <<>>
    /\ returned' = Some(FALSE)
    /\ UNCHANGED <<copied, clock, start_time, current_status, history, daily_records,
                   disk, budget, track, lock, thread>>

(***************************************************************************)
(* reset_stats                                                             *)
(***************************************************************************)
\* if device_name: a name that is given and not empty
Truthy(device_name) == device_name.some /\ device_name.val # ""

\* self.history after reset_stats(device_name) with a name
ResetHistory(h, name) ==
    IF name \in DOMAIN h THEN DictSet(h, name, DefaultHistory) ELSE h

\* self.current_status after reset_stats(device_name) with a name
ResetCurrent(cs, name) ==
    IF name \in DOMAIN cs THEN DictDel(cs, name) ELSE cs

\* as ResetDaily, but the daily buckets of the device are dropped
ResetDailyDrop(dr, name) ==
    [date \in DOMAIN dr |-> [device \in DOMAIN dr[date] \ {name} |-> dr[date][device]]]

\* self.daily_records after reset_stats(device_name) with a name
ResetDaily(dr, name) == dr

\* as reset_stats, but save_data is called before the tables are reset
reset_stats_save_first(device_name) ==
    /\ savePc = "idle"
    /\ budget.disk > 0
    /\ budget' = [budget EXCEPT !.disk = @ - 1]
    /\ pending' = BuildData(start_time, clock, history, daily_records)
    /\ disk' = open_w(disk, temp_file)
    /\ savePc' = "writing"
    /\ IF Truthy(device_name)
       THEN /\ history' = ResetHistory(history, device_name.val)
            /\ current_status' = ResetCurrent(current_status, device_name.val)
            /\ daily_records' = ResetDaily(daily_records, device_name.val)
            /\ start_time' = start_time
            /\ track' = ResetCurrent(track, device_name.val)
       ELSE /\ history' = EmptyDict
            /\ current_status' = EmptyDict
            /\ daily_records' = EmptyDict
            /\ start_time' = clock
            /\ track' = EmptyDict
    /\ UNCHANGED <<copied, clock, returned, lock, thread>>

reset_stats(device_name) ==
    /\ savePc = "idle"
    /\ budget.disk > 0
    /\ budget' = [budget EXCEPT !.disk = @ - 1]
    /\ IF Truthy(device_name)
       THEN /\ history' = ResetHistory(history, device_name.val)
            /\ current_status' = ResetCurrent(current_status, device_name.val)
            /\ daily_records' = ResetDaily(daily_records, device_name.val)
            /\ start_time' = start_time
            /\ track' = ResetCurrent(track, device_name.val)
       ELSE /\ history' = EmptyDict
            /\ current_status' = EmptyDict
            /\ daily_records' = EmptyDict
            /\ start_time' = clock
            /\ track' = EmptyDict
    \* self.save_data(), up to the open of the temporary file
    /\ pending' = BuildData(start_time', clock, history', daily_records')
    /\ disk' = open_w(disk, temp_file)
    /\ savePc' = "writing"
    /\ UNCHANGED <<copied, clock, returned, lock, thread>>

(***************************************************************************)
(* get_all_daily_records.  The mapping handed to the caller is a dict of   *)
(* dates; own is its content as built for the caller, and shared is the    *)
(* set of dates whose entry is the very dict of self.daily_records, so     *)
(* that a write to it by either side shows on both.                        *)
(***************************************************************************)
\* as DeepCopy, with dict(self.daily_records): the dict of dates is new,
\* the entries of the dates are the ledger's
ShallowCopy(dr) == [own |-> dr, shared |-> DOMAIN dr]

\* json.loads(json.dumps(self.daily_records)): the text is parsed into
\* dicts that are new at every level
DeepCopy(dr) ==
    [own |-> [date \in DOMAIN dr |->
                [device \in DOMAIN dr[date] |->
                   [status \in DOMAIN dr[date][device] |-> dr[date][device][status]]]],
     shared |-> {}]

\* the mapping as its holder reads it while the daily table is dr
Held(c, dr) ==
    [date \in DOMAIN c.own |->
        IF date \in c.shared /\ date \in DOMAIN dr THEN dr[date] ELSE c.own[date]]

\* get_all_daily_records(), lines 186-190
get_all_daily_records ==
    /\ savePc = "idle"
    /\ copied' = Some(DeepCopy(daily_records))
    /\ UNCHANGED <<clock, start_time, current_status, history, daily_records,
                   disk, savePc, pending, budget, track, returned, lock, thread>>

\* the entry of a date after the caller's write at a level below the date:
\* del entry[device], or entry[device][status] = -1
Written(entry, level, device, status) ==
    IF level = "device"
    THEN DictDel(entry, device)
    ELSE DictSet(entry, device, DictSet(entry[device], status, 0 - 1))

\* the caller writes to the mapping it holds: del result[date],
\* del result[date][device] or result[date][device][status] = -1
caller_writes(level, date, device, status) ==
    /\ copied.some
    /\ budget.calls > 0
    /\ budget' = [budget EXCEPT !.calls = @ - 1]
    /\ LET c == copied.val
           held == Held(c, daily_records)
       IN  /\ date \in DOMAIN held
           /\ level # "date" => device \in DOMAIN held[date]
           /\ level = "state" => status \in DOMAIN held[date][device]
           /\ IF level = "date"
              THEN /\ copied' = Some([own |-> DictDel(c.own, date),
                                      shared |-> c.shared \ {date}])
                   /\ daily_records' = daily_records
              ELSE IF date \in c.shared /\ date \in DOMAIN daily_records
              THEN /\ daily_records' =
                        DictSet(daily_records, date,
                                Written(daily_records[date], level, device, status))
                   /\ copied' = copied
              ELSE /\ copied' = Some([own |-> DictSet(c.own, date,
                                                      Written(c.own[date], level, device, status)),
                                      shared |-> c.shared])
                   /\ daily_records' = daily_records
    /\ UNCHANGED <<clock, start_time, current_status, history,
                   disk, savePc, pending, track, returned, lock, thread>>

(***************************************************************************)
(* __init__ and load_data: the process ends at any point and a new one     *)
(* constructs its TimeTracker on the same data file                        *)
(***************************************************************************)
\* data of load_data: the parsed data file, None when it is absent or
\* json.load raises
LoadData(dsk) ==
    IF dsk[data_file].exists THEN json_load(dsk[data_file]) ELSE None

\* a JSON array, as json.load returns it: a list and not a dict
JsonArray(items) == [json_array |-> items]

IsArray(value) == DOMAIN value = {"json_array"}

\* the section of data at which load_data raises: data[section].items() on a
\* list raises AttributeError; "" when nothing is raised.  The exception
\* ends load_data at the except of line 76.
LoadRaises(data) ==
    IF "history" \in DOMAIN data /\ IsArray(data.history) THEN "history"
    ELSE IF "daily_records" \in DOMAIN data /\ IsArray(data.daily_records)
         THEN "daily_records"
         ELSE ""

\* the tables of a TimeTracker constructed at time now: the sections are
\* loaded in the order history, daily_records, start_time, up to the one
\* that raises
Constructed(dsk, now) ==
    LET data == LoadData(dsk)
        raised == IF data.some THEN LoadRaises(data.val) ELSE ""
    IN  [history |-> IF data.some /\ raised # "history"
                     THEN LoadHistory(data.val) ELSE EmptyDict,
         daily_records |-> IF data.some /\ raised = ""
                           THEN LoadDaily(data.val) ELSE EmptyDict,
         start_time |-> IF data.some /\ raised = ""
                        THEN LoadStartTime(data.val, now) ELSE now,
         current_status |-> EmptyDict]

\* as Restart, but the new ledger has the transitions of the old one
RestartKeepTransitions ==
    /\ budget.disk > 0
    /\ budget' = [budget EXCEPT !.disk = @ - 1]
    /\ history' = Constructed(disk, clock).history
    /\ daily_records' = Constructed(disk, clock).daily_records
    /\ start_time' = Constructed(disk, clock).start_time
    /\ current_status' = current_status
    /\ savePc' = "idle"
    /\ pending' = <<>>
    /\ track' = EmptyDict
    /\ returned' = None
    /\ UNCHANGED <<copied, clock, disk, lock, thread>>

\* the process ends and TimeTracker() is constructed on the same data file
Restart ==
    /\ budget.disk > 0
    /\ budget' = [budget EXCEPT !.disk = @ - 1]
    /\ history' = Constructed(disk, clock).history
    /\ daily_records' = Constructed(disk, clock).daily_records
    /\ start_time' = Constructed(disk, clock).start_time
    /\ current_status' = Constructed(disk, clock).current_status
    /\ savePc' = "idle"
    /\ pending' = <<>>
    /\ track' = EmptyDict
    /\ returned' = None
    /\ UNCHANGED <<copied, clock, disk, lock, thread>>

(***************************************************************************)
(* The methods called by several threads: every method is                  *)
(* "with self._lock: body".  A thread calls a method (Call), waits for the *)
(* lock and takes it (Enter), runs the body in one or more steps and       *)
(* releases the lock when the with block ends or an exception leaves it    *)
(* (Exit).                                                                 *)
(***************************************************************************)
\* as CanAcquire, for a lock that every thread can take at any time
CanAcquireAny(lk, t) == TRUE

\* as CanAcquire, for threading.Lock(), which is not re-entrant
CanAcquireFree(lk, t) == lk.count = 0

\* RLock.acquire() does not block: nobody owns the lock, or t owns it
CanAcquire(lk, t) == lk.count = 0 \/ lk.owner = t

\* RLock.acquire()
Acquire(lk, t) ==
    [owner |-> t, count |-> IF lk.owner = t THEN lk.count + 1 ELSE 1]

\* RLock.release()
Release(lk, t) ==
    IF lk.owner # t THEN lk
    ELSE IF lk.count = 1 THEN Unlocked
    ELSE [lk EXCEPT !.count = @ - 1]

\* the arguments of update_status: a status, and a string that is none
ThreadStatus == {"online", "rebooting"}

\* the calls a thread makes
Calls ==
    {[op |-> "update_status", device |-> d, status |-> s, arg |-> None] :
        d \in Devices, s \in ThreadStatus}
    \cup {[op |-> "get_device_stats", device |-> d, status |-> "", arg |-> None] :
        d \in Polled}
    \cup {[op |-> o, device |-> "", status |-> "", arg |-> None] :
        o \in {"get_all_devices_stats", "get_all_daily_records", "save_data"}}
    \cup {[op |-> "reset_stats", device |-> "", status |-> "", arg |-> a] :
        a \in {None, Some("PI-65")}}

\* the thread calls a method of the ledger
Call(t, c) ==
    /\ thread[t].pc = "idle"
    /\ budget.calls > 0
    /\ budget' = [budget EXCEPT !.calls = @ - 1]
    /\ thread' = [thread EXCEPT ![t] =
                     [Idle EXCEPT !.op = c.op, !.pc = "enter", !.device = c.device,
                                  !.status = c.status, !.arg = c.arg]]
    /\ UNCHANGED <<copied, clock, start_time, current_status, history, daily_records,
                   disk, savePc, pending, track, returned, lock>>

\* with self._lock:
Enter(t) ==
    /\ thread[t].pc = "enter"
    /\ CanAcquire(lock, t)
    /\ lock' = Acquire(lock, t)
    /\ thread' = [thread EXCEPT ![t].pc = "body"]
    /\ UNCHANGED <<copied, clock, start_time, current_status, history, daily_records,
                   disk, savePc, pending, budget, track, returned>>

\* the end of the with block: the lock is released and the method returns,
\* to the method that called it or to the thread
Exit(t) ==
    /\ thread[t].pc = "exit"
    /\ lock' = Release(lock, t)
    /\ thread' = [thread EXCEPT ![t] =
                     IF thread[t].outer = "get_all_devices_stats"
                     THEN [@ EXCEPT !.op = "get_all_devices_stats", !.outer = "",
                                    !.device = "", !.pc = "loop"]
                     ELSE IF thread[t].outer = "reset_stats"
                     THEN [@ EXCEPT !.op = "reset_stats", !.outer = "", !.pc = "exit"]
                     ELSE Idle]
    /\ UNCHANGED <<copied, clock, start_time, current_status, history, daily_records,
                   disk, savePc, pending, budget, track, returned>>

\* the tables after update_status(device_name, new_status) run at time now on
\* the tables cs, h, dr, and whether it raised KeyError
Recorded(cs, h, dr, device_name, new_status, now) ==
    LET today == strftime(now)
        open == device_name \in DOMAIN cs
        old_status == CreditedStatus(cs, device_name, new_status)
        duration == ClampDuration(Timedelta(now - cs[device_name].since))
        raise1 == open /\ old_status \notin DOMAIN HistoryTouch(h, device_name)[device_name]
        raise2 == open /\ ~raise1
                  /\ old_status \notin DOMAIN DailyTouch(dr, today, device_name)[today][device_name]
    IN  [history |-> IF ~open THEN h
                     ELSE IF raise1 THEN HistoryTouch(h, device_name)
                     ELSE AddHistory(h, device_name, old_status, duration),
         daily_records |-> IF ~open \/ raise1 THEN dr
                           ELSE IF raise2 THEN DailyTouch(dr, today, device_name)
                           ELSE AddDaily(dr, today, device_name, old_status, duration),
         current_status |-> IF raise1 \/ raise2 THEN cs
                            ELSE OpenTransition(cs, device_name, new_status, now),
         raised |-> raise1 \/ raise2]

\* as update_status_read, but the with block ends after these lines
update_status_read_unlocked(t) ==
    /\ thread[t].op = "update_status"
    /\ thread[t].pc = "body"
    /\ LET device_name == thread[t].device
           now == clock
       IN  thread' = [thread EXCEPT
              ![t].pc = "write",
              ![t].now = now,
              ![t].old = IF device_name \in DOMAIN current_status
                         THEN Some([status |-> CreditedStatus(current_status, device_name,
                                                              thread[t].status),
                                    duration |-> ClampDuration(
                                        Timedelta(now - current_status[device_name].since))])
                         ELSE None]
    /\ lock' = Release(lock, t)
    /\ UNCHANGED <<copied, clock, start_time, current_status, history, daily_records,
                   disk, savePc, pending, budget, track, returned>>

\* as update_status_read, but now was read by the caller at some time
\* before the lock was acquired
update_status_read_early(t) ==
    /\ thread[t].op = "update_status"
    /\ thread[t].pc = "body"
    /\ \E now \in {c \in ClockValues : c <= clock} :
          LET device_name == thread[t].device
          IN  thread' = [thread EXCEPT
                 ![t].pc = "write",
                 ![t].now = now,
                 ![t].old = IF device_name \in DOMAIN current_status
                            THEN Some([status |-> CreditedStatus(current_status, device_name,
                                                                 thread[t].status),
                                       duration |-> ClampDuration(
                                           Timedelta(now - current_status[device_name].since))])
                            ELSE None]
    /\ UNCHANGED <<copied, clock, start_time, current_status, history, daily_records,
                   disk, savePc, pending, budget, track, returned, lock>>

\* update_status, lines 117-128: now, and old_status and duration when the
\* device has a transition
update_status_read(t) ==
    /\ thread[t].op = "update_status"
    /\ thread[t].pc = "body"
    /\ LET device_name == thread[t].device
           now == clock
       IN  thread' = [thread EXCEPT
              ![t].pc = "write",
              ![t].now = now,
              ![t].old = IF device_name \in DOMAIN current_status
                         THEN Some([status |-> CreditedStatus(current_status, device_name,
                                                              thread[t].status),
                                    duration |-> ClampDuration(
                                        Timedelta(now - current_status[device_name].since))])
                         ELSE None]
    /\ UNCHANGED <<copied, clock, start_time, current_status, history, daily_records,
                   disk, savePc, pending, budget, track, returned, lock>>

\* update_status, lines 131-140: the two += and the new transition
update_status_write(t) ==
    /\ thread[t].op = "update_status"
    /\ thread[t].pc = "write"
    /\ LET device_name == thread[t].device
           now == thread[t].now
           today == strftime(now)
           open == thread[t].old.some
           old_status == thread[t].old.val.status
           duration == thread[t].old.val.duration
           raise1 == open /\ old_status \notin DOMAIN HistoryTouch(history, device_name)[device_name]
           raise2 == open /\ ~raise1
                     /\ old_status \notin DOMAIN DailyTouch(daily_records, today, device_name)[today][device_name]
       IN  /\ history' = IF ~open THEN history
                         ELSE IF raise1 THEN HistoryTouch(history, device_name)
                         ELSE AddHistory(history, device_name, old_status, duration)
           /\ daily_records' = IF ~open \/ raise1 THEN daily_records
                               ELSE IF raise2 THEN DailyTouch(daily_records, today, device_name)
                               ELSE AddDaily(daily_records, today, device_name, old_status, duration)
           /\ current_status' = IF raise1 \/ raise2 THEN current_status
                                ELSE OpenTransition(current_status, device_name,
                                                    thread[t].status, now)
           /\ track' = IF raise1 \/ raise2 THEN track
                       ELSE TrackRecord(device_name, thread[t].status, now)
           /\ thread' = [thread EXCEPT ![t].pc = "exit", ![t].raised = raise1 \/ raise2]
    /\ UNCHANGED <<copied, clock, start_time, disk, savePc, pending, budget, returned, lock>>

\* the body of get_device_stats
get_device_stats_body(t) ==
    /\ thread[t].op = "get_device_stats"
    /\ thread[t].pc = "body"
    /\ history' = StatsHistory(history, thread[t].device)
    /\ thread' = [thread EXCEPT ![t].pc = "exit"]
    /\ UNCHANGED <<copied, clock, start_time, current_status, daily_records,
                   disk, savePc, pending, budget, track, returned, lock>>

\* get_all_devices_stats, line 196: all_devices
get_all_devices_stats_body(t) ==
    /\ thread[t].op = "get_all_devices_stats"
    /\ thread[t].pc = "body"
    /\ thread' = [thread EXCEPT ![t].pc = "loop",
                                ![t].todo = AllDevices(current_status, history)]
    /\ UNCHANGED <<copied, clock, start_time, current_status, history, daily_records,
                   disk, savePc, pending, budget, track, returned, lock>>

\* get_all_devices_stats, lines 197-200: self.get_device_stats(device) for the
\* next device, or the return when there is none left
get_all_devices_stats_loop(t) ==
    /\ thread[t].op = "get_all_devices_stats"
    /\ thread[t].pc = "loop"
    /\ IF thread[t].todo = {}
       THEN thread' = [thread EXCEPT ![t].pc = "exit"]
       ELSE \E device \in thread[t].todo :
               thread' = [thread EXCEPT ![t].op = "get_device_stats",
                                        ![t].outer = "get_all_devices_stats",
                                        ![t].device = device,
                                        ![t].todo = @ \ {device},
                                        ![t].pc = "enter"]
    /\ UNCHANGED <<copied, clock, start_time, current_status, history, daily_records,
                   disk, savePc, pending, budget, track, returned, lock>>

\* the body of get_all_daily_records: self.daily_records is read
get_all_daily_records_body(t) ==
    /\ thread[t].op = "get_all_daily_records"
    /\ thread[t].pc = "body"
    /\ thread' = [thread EXCEPT ![t].pc = "exit"]
    /\ UNCHANGED <<copied, clock, start_time, current_status, history, daily_records,
                   disk, savePc, pending, budget, track, returned, lock>>

\* as save_data_begin, but the lock is released when data is built and the
\* file is written outside the lock
save_data_begin_release(t) ==
    /\ thread[t].op = "save_data"
    /\ thread[t].pc = "body"
    /\ savePc = "idle"
    /\ pending' = BuildData(start_time, clock, history, daily_records)
    /\ disk' = open_w(disk, temp_file)
    /\ savePc' = "writing"
    /\ lock' = Release(lock, t)
    /\ thread' = [thread EXCEPT ![t].pc = "dump"]
    /\ UNCHANGED <<copied, clock, start_time, current_status, history, daily_records,
                   budget, track, returned>>

\* save_data, lines 84-99: data is built and the temporary file opened
save_data_begin(t) ==
    /\ thread[t].op = "save_data"
    /\ thread[t].pc = "body"
    /\ savePc = "idle"
    /\ pending' = BuildData(start_time, clock, history, daily_records)
    /\ disk' = open_w(disk, temp_file)
    /\ savePc' = "writing"
    /\ thread' = [thread EXCEPT ![t].pc = "dump"]
    /\ UNCHANGED <<copied, clock, start_time, current_status, history, daily_records,
                   budget, track, returned, lock>>

\* save_data, line 100: json.dump writes the next top-level entry
save_data_dump(t) ==
    /\ thread[t].op = "save_data"
    /\ thread[t].pc = "dump"
    /\ Len(disk[temp_file].content) < Len(pending)
    /\ disk' = write(disk, temp_file,
                      Dumped(pending, daily_records, Len(disk[temp_file].content) + 1))
    /\ UNCHANGED <<copied, clock, start_time, current_status, history, daily_records,
                   savePc, pending, budget, track, returned, lock, thread>>

\* save_data, lines 103-105: os.replace and return True
save_data_replace(t) ==
    /\ thread[t].op = "save_data"
    /\ thread[t].pc = "dump"
    /\ Len(disk[temp_file].content) = Len(pending)
    /\ disk' = os_replace(disk, temp_file, data_file)
    /\ savePc' = "idle"
    /\ pending' = <<>>
    /\ returned' = Some(TRUE)
    /\ thread' = [thread EXCEPT ![t].pc = "exit"]
    /\ UNCHANGED <<copied, clock, start_time, current_status, history, daily_records,
                   budget, track, lock>>

\* reset_stats, lines 316-331: the tables are reset and save_data is called
reset_stats_body(t) ==
    /\ thread[t].op = "reset_stats"
    /\ thread[t].pc = "body"
    /\ IF Truthy(thread[t].arg)
       THEN /\ history' = ResetHistory(history, thread[t].arg.val)
            /\ current_status' = ResetCurrent(current_status, thread[t].arg.val)
            /\ daily_records' = ResetDaily(daily_records, thread[t].arg.val)
            /\ start_time' = start_time
            /\ track' = ResetCurrent(track, thread[t].arg.val)
       ELSE /\ history' = EmptyDict
            /\ current_status' = EmptyDict
            /\ daily_records' = EmptyDict
            /\ start_time' = clock
            /\ track' = EmptyDict
    /\ thread' = [thread EXCEPT ![t].op = "save_data", ![t].outer = "reset_stats",
                                ![t].pc = "enter"]
    /\ UNCHANGED <<copied, clock, disk, savePc, pending, budget, returned, lock>>

(***************************************************************************)
(* The wall clock                                                          *)
(***************************************************************************)
Tick ==
    /\ \E t \in ClockValues :
          /\ t > clock
          /\ clock' = t
    /\ UNCHANGED <<copied, start_time, current_status, history, daily_records,
                   disk, savePc, pending, budget, track, returned, lock, thread>>

\* the system time is set back
ClockBack ==
    /\ budget.regressions > 0
    /\ budget' = [budget EXCEPT !.regressions = @ - 1]
    /\ \E t \in ClockValues :
          /\ t < clock
          /\ clock' = t
    /\ UNCHANGED <<copied, start_time, current_status, history, daily_records,
                   disk, savePc, pending, track, returned, lock, thread>>

(***************************************************************************)
(* Specifications                                                          *)
(***************************************************************************)
\* the data file left by an earlier run: started at ClockStart - 10 with
\* update_status("PI-65", "offline") and update_status("PI-66", "running"),
\* both devices recorded again and save_data called at ClockStart - 5
PreviousRun ==
    [exists |-> TRUE,
     content |-> BuildData(ClockStart - 10, ClockStart - 5,
                           AddHistory(AddHistory(EmptyDict, "PI-65", "offline", Timedelta(5)),
                                      "PI-66", "running", Timedelta(5)),
                           AddDaily(AddDaily(EmptyDict, strftime(ClockStart - 5), "PI-65",
                                             "offline", Timedelta(5)),
                                    strftime(ClockStart - 5), "PI-66", "running",
                                    Timedelta(5)))]

InitialFiles == {AbsentFile, PreviousRun}

\* TimeTracker() at ClockStart, with or without a data file
InitLedger ==
    /\ clock = ClockStart
    /\ \E f \in InitialFiles :
          disk = [path \in Paths |-> IF path = data_file THEN f ELSE AbsentFile]
    /\ start_time = Constructed(disk, clock).start_time
    /\ current_status = Constructed(disk, clock).current_status
    /\ history = Constructed(disk, clock).history
    /\ daily_records = Constructed(disk, clock).daily_records
    /\ savePc = "idle"
    /\ pending = <<>>
    /\ track = EmptyDict
    /\ returned = None
    /\ lock = Unlocked
    /\ thread = [t \in Threads |-> Idle]
    /\ copied = None

ResetArgs == {Some(d) : d \in Devices} \cup {Some(""), None}

\* recording and querying in one process
Init ==
    /\ InitLedger
    /\ budget = [records |-> MaxRecords, disk |-> 0, regressions |-> MaxRegress]

Next ==
    \/ \E d \in Polled, s \in Status : update_status(d, s)
    \/ \E d \in Devices : get_device_stats(d)
    \/ get_all_devices_stats
    \/ Tick
    \/ ClockBack

Spec == Init /\ [][Next]_vars

\* recording, resetting and saving, and the data file across the end of
\* the process
InitDisk ==
    /\ InitLedger
    /\ budget = [records |-> DiskMaxRecords, disk |-> MaxDiskOps, regressions |-> 0]

NextDisk ==
    \/ \E d \in Polled, s \in Status : update_status(d, s)
    \/ \E d \in Polled : get_device_stats(d)
    \/ \E a \in ResetArgs : reset_stats(a)
    \/ save_begin
    \/ save_write
    \/ save_replace
    \/ Restart
    \/ Tick

SpecDisk == InitDisk /\ [][NextDisk]_vars

\* the same operations on a ledger that starts empty: no data file
InitRun ==
    /\ clock = ClockStart
    /\ disk = [path \in Paths |-> AbsentFile]
    /\ start_time = Constructed(disk, clock).start_time
    /\ current_status = Constructed(disk, clock).current_status
    /\ history = Constructed(disk, clock).history
    /\ daily_records = Constructed(disk, clock).daily_records
    /\ savePc = "idle"
    /\ pending = <<>>
    /\ track = EmptyDict
    /\ returned = None
    /\ lock = Unlocked
    /\ thread = [t \in Threads |-> Idle]
    /\ copied = None
    /\ budget = [records |-> RunMaxRecords, disk |-> RunMaxDiskOps, regressions |-> 0]

NextRun ==
    \/ \E d \in Polled, s \in Status : update_status(d, s)
    \/ \E d \in Polled : get_device_stats(d)
    \/ \E a \in ResetArgs : reset_stats(a)
    \/ save_begin
    \/ save_write
    \/ save_replace
    \/ Restart
    \/ Tick

SpecRun == InitRun /\ [][NextRun]_vars

\* the threads of the process calling the methods of one ledger, which was
\* constructed on the data file of the earlier run
InitThreads ==
    /\ clock = ClockStart
    /\ disk = [path \in Paths |-> IF path = data_file THEN PreviousRun ELSE AbsentFile]
    /\ start_time = Constructed(disk, clock).start_time
    /\ current_status = Constructed(disk, clock).current_status
    /\ history = Constructed(disk, clock).history
    /\ daily_records = Constructed(disk, clock).daily_records
    /\ savePc = "idle"
    /\ pending = <<>>
    /\ track = EmptyDict
    /\ returned = None
    /\ lock = Unlocked
    /\ thread = [t \in Threads |-> Idle]
    /\ copied = None
    /\ budget = [records |-> 0, disk |-> 0, regressions |-> 0, calls |-> ThreadMaxCalls]

\* a step of a thread that holds the lock
Body(t) ==
    \/ update_status_read(t)
    \/ update_status_write(t)
    \/ get_device_stats_body(t)
    \/ get_all_devices_stats_body(t)
    \/ get_all_devices_stats_loop(t)
    \/ get_all_daily_records_body(t)
    \/ save_data_begin(t)
    \/ save_data_dump(t)
    \/ save_data_replace(t)
    \/ reset_stats_body(t)
    \/ Exit(t)

NextThreads ==
    \/ \E t \in Threads, c \in Calls : Call(t, c)
    \/ \E t \in Threads : Enter(t)
    \/ \E t \in Threads : Body(t)
    \/ Tick

SpecThreads == InitThreads /\ [][NextThreads]_vars

\* fair scheduling: a thread that can run does run, and a thread that waits
\* for the lock gets it when the lock is free again and again
SpecThreadsFair ==
    /\ InitThreads
    /\ [][NextThreads]_vars
    /\ \A t \in Threads : WF_vars(Body(t)) /\ SF_vars(Enter(t))

\* a data file cut off after its first n top-level entries
CutOff(f, n) == [exists |-> TRUE, content |-> SubSeq(f.content, 1, n)]

\* a data file with the value of one section replaced
WithSection(f, key, value) ==
    [exists |-> TRUE,
     content |-> [i \in 1..Len(f.content) |->
                    IF f.content[i].key = key
                    THEN [key |-> key, value |-> value]
                    ELSE f.content[i]]]

\* the data files a TimeTracker can find: none, the file of the earlier run,
\* that file cut off, and that file with a list in place of the history or
\* the daily_records object
DamagedFiles ==
    {AbsentFile, PreviousRun}
    \cup {CutOff(PreviousRun, n) : n \in {0, Len(FileKeys) - 1}}
    \cup {WithSection(PreviousRun, "history", JsonArray(<<>>)),
          WithSection(PreviousRun, "daily_records", JsonArray(<<>>))}

\* TimeTracker() at ClockStart on any of these files
InitLoad ==
    /\ clock = ClockStart
    /\ \E f \in DamagedFiles :
          disk = [path \in Paths |-> IF path = data_file THEN f ELSE AbsentFile]
    /\ start_time = Constructed(disk, clock).start_time
    /\ current_status = Constructed(disk, clock).current_status
    /\ history = Constructed(disk, clock).history
    /\ daily_records = Constructed(disk, clock).daily_records
    /\ savePc = "idle"
    /\ pending = <<>>
    /\ track = EmptyDict
    /\ returned = None
    /\ lock = Unlocked
    /\ thread = [t \in Threads |-> Idle]
    /\ copied = None
    /\ budget = [records |-> LoadMaxRecords, disk |-> LoadMaxDiskOps, regressions |-> 0]

\* the ledger on a damaged data file, with devices it does not know
NextLoad ==
    \/ \E d \in Polled, s \in Status : update_status(d, s)
    \/ \E d \in Devices : get_device_stats(d)
    \/ \E a \in ResetArgs : reset_stats(a)
    \/ save_write
    \/ save_replace
    \/ Restart
    \/ Tick

SpecLoad == InitLoad /\ [][NextLoad]_vars

\* a caller of get_all_daily_records that writes to what it was given,
\* between the update_status calls of the poller
InitCopy ==
    /\ InitLedger
    /\ budget = [records |-> CopyMaxRecords, disk |-> 0, regressions |-> 0,
                 calls |-> CopyMaxWrites]

WriteLevels == {"date", "device", "state"}

NextCopy ==
    \/ \E d \in Polled, s \in Status : update_status(d, s)
    \/ get_all_daily_records
    \/ \E level \in WriteLevels, date \in {strftime(c) : c \in ClockValues},
          d \in Devices, s \in Status : caller_writes(level, date, d, s)
    \/ Tick

SpecCopy == InitCopy /\ [][NextCopy]_vars

\* the data file of the earlier run with a daily entry of PI-65 that has the
\* key 'offline' only: load_data assigns the entry as it is (line 66)
ShortDaily ==
    WithSection(PreviousRun, "daily_records",
                DictSet(EmptyDict, strftime(ClockStart - 5),
                        DictSet(EmptyDict, "PI-65", DictSet(EmptyDict, "offline", 5))))

\* the statuses update_status is called with: the three of get_device_status
\* and one that is none of them
AnyStatus == Status \cup {"rebooting"}

\* TimeTracker() at ClockStart on that file
InitKeys ==
    /\ clock = ClockStart
    /\ disk = [path \in Paths |-> IF path = data_file THEN ShortDaily ELSE AbsentFile]
    /\ start_time = Constructed(disk, clock).start_time
    /\ current_status = Constructed(disk, clock).current_status
    /\ history = Constructed(disk, clock).history
    /\ daily_records = Constructed(disk, clock).daily_records
    /\ savePc = "idle"
    /\ pending = <<>>
    /\ track = EmptyDict
    /\ returned = None
    /\ lock = Unlocked
    /\ thread = [t \in Threads |-> Idle]
    /\ copied = None
    /\ budget = [records |-> KeysMaxRecords, disk |-> 0, regressions |-> 0]

NextKeys ==
    \/ \E d \in Devices, s \in AnyStatus : update_status(d, s)
    \/ Tick

SpecKeys == InitKeys /\ [][NextKeys]_vars

\* the ledger with a disk that fails
InitFaults ==
    /\ InitLedger
    /\ budget = [records |-> FaultMaxRecords, disk |-> FaultMaxDiskOps, regressions |-> 0]

NextFaults ==
    \/ \E d \in Polled, s \in Status : update_status(d, s)
    \/ save_begin
    \/ save_open_fail
    \/ save_write
    \/ save_replace
    \/ save_fail
    \/ Tick

SpecFaults == InitFaults /\ [][NextFaults]_vars

\* the poller and the auto-save thread, on a disk that can fail at any
\* write; there is no data file at the start
InitAuto ==
    /\ InitLedger
    /\ ~disk[data_file].exists
    /\ budget = [records |-> AutoMaxRecords, disk |-> 0, regressions |-> 0]

NextAuto ==
    \/ \E d \in Polled, s \in Status : update_status(d, s)
    \/ auto_save
    \/ save_write
    \/ save_replace
    \/ save_fail
    \/ Tick

\* the auto-save loop never ends, and the disk does not fail for ever: a
\* disk call that is tried again and again succeeds at some time
SpecAuto ==
    /\ InitAuto
    /\ [][NextAuto]_vars
    /\ WF_vars(auto_save)
    /\ \A k \in 0..(Len(FileKeys) - 1) :
          SF_vars(save_write /\ Len(disk[temp_file].content) = k)
    /\ SF_vars(save_replace)

(***************************************************************************)
(* Readings of the tables                                                  *)
(***************************************************************************)
\* the cumulative seconds of a device in a status; 0 for a device without entry
HistSeconds(h, device, status) ==
    IF device \in DOMAIN h THEN total_seconds(h[device][status]) ELSE 0

\* the seconds of a daily bucket; 0 for a bucket that does not exist
DailySeconds(dr, date, device, status) ==
    IF date \in DOMAIN dr /\ device \in DOMAIN dr[date] THEN dr[date][device][status] ELSE 0

\* the seconds of an open transition as of now, never negative
OpenElapsed(cs, device, now) ==
    IF device \in DOMAIN cs /\ now > cs[device].since THEN now - cs[device].since ELSE 0

\* the three totals reported by get_device_stats, added up
StatsSum(device) ==
    LET st == DeviceStats(current_status, history, device, clock)
    IN  st.running_seconds + st.online_seconds + st.offline_seconds

(***************************************************************************)
(* C1  Conservation                                                        *)
(***************************************************************************)
\* C1 as stated: for a device recorded at strictly increasing times, at every
\* later time now the sum of its three cumulative durations plus the elapsed
\* time of its open transition equals now minus the time of its first
\* update_status call.
C1_ConservationFromZero ==
    \A d \in DOMAIN track :
        (track[d].increasing /\ clock >= current_status[d].since)
        => /\ SumHistory(history, d) + (clock - current_status[d].since)
                = clock - track[d].first
           /\ StatsSum(d) = clock - track[d].first

\* C1 amended: the sum of the three cumulative durations plus the elapsed time
\* of the open transition equals now minus the time of the first
\* update_status call PLUS the sum of the cumulative durations the device had
\* at that first call (the totals loaded from the data file; zero when none
\* were loaded).
C1_Conservation ==
    \A d \in DOMAIN track :
        (track[d].increasing /\ clock >= current_status[d].since)
        => /\ SumHistory(history, d) + (clock - current_status[d].since)
                = clock - track[d].first + track[d].base
           /\ StatsSum(d) = clock - track[d].first + track[d].base

\* a device with loaded totals, recorded at increasing times, a transition
\* closed and the open one running
C1_Witness ==
    \E d \in DOMAIN track :
        /\ track[d].increasing
        /\ track[d].base > 0
        /\ SumHistory(history, d) > track[d].base
        /\ clock > current_status[d].since

(***************************************************************************)
(* C2  Non-negativity                                                      *)
(***************************************************************************)
NonNegative(h, dr) ==
    /\ \A d \in DOMAIN h : \A s \in DOMAIN h[d] : total_seconds(h[d][s]) >= 0
    /\ \A date \in DOMAIN dr : \A d \in DOMAIN dr[date] :
          \A s \in DOMAIN dr[date][d] : dr[date][d][s] >= 0

\* C2: every cumulative duration and every daily bucket is >= 0 in every
\* state; an update_status call at a time earlier than the device's since adds
\* 0 to every total and bucket and completes: it opens the new transition.
C2_NonNegativity ==
    [][ /\ NonNegative(history', daily_records')
        /\ \A d \in Devices, s \in Status :
              (update_status(d, s) /\ d \in DOMAIN current_status
               /\ clock < current_status[d].since)
              => /\ \A st \in Status :
                       HistSeconds(history', d, st) = HistSeconds(history, d, st)
                 /\ \A date \in DOMAIN daily_records' : \A st \in Status :
                       DailySeconds(daily_records', date, d, st)
                         = DailySeconds(daily_records, date, d, st)
                 /\ current_status'[d] = [status |-> s, since |-> clock] ]_vars

\* a device was recorded at a time earlier than its since, after it had
\* accumulated time
C2_Witness ==
    \E d \in DOMAIN track :
        /\ track[d].regressed
        /\ SumHistory(history, d) > 0
        /\ \E date \in DOMAIN daily_records : d \in DOMAIN daily_records[date]

(***************************************************************************)
(* C3  Per-state attribution                                               *)
(***************************************************************************)
ScenarioStats ==
    [running |-> "00:00:05", online |-> "00:00:15", offline |-> "00:00:10",
     running_seconds |-> 5, online_seconds |-> 15, offline_seconds |-> 10,
     current_status |-> "running", current_duration |-> "00:00:05"]

\* C3: the time between two consecutive update_status calls of a device is
\* added to the total of the status set by the earlier call and to no other
\* total; after update_status(d, offline) at T0 on an empty ledger,
\* update_status(d, online) at T0+10 and update_status(d, running) at T0+25,
\* get_device_stats(d) at T0+30 returns offline 10s, online 15s, running 5s,
\* current status running, current duration 5s.
C3_Attribution ==
    [][ /\ \A d \in Devices, s \in Status :
              (update_status(d, s) /\ d \in DOMAIN current_status)
              => \A st \in Status :
                    HistSeconds(history', d, st)
                      = HistSeconds(history, d, st)
                        + (IF st = current_status[d].status
                           THEN OpenElapsed(current_status, d, clock) ELSE 0)
        /\ \A d \in DOMAIN track' :
              (track'[d].scenario = 3 /\ clock' = track'[d].first + 30)
              => DeviceStats(current_status', history', d, clock') = ScenarioStats ]_vars

\* the three calls of the scenario have been made and the clock is at T0+30
C3_Witness ==
    \E d \in DOMAIN track :
        track[d].scenario = 3 /\ clock = track[d].first + 30

(***************************************************************************)
(* C4  Daily attribution                                                   *)
(***************************************************************************)
\* C4: an update_status call that closes a transition adds the whole elapsed
\* time to the one daily bucket (date of now, device, old status), also when
\* the transition was opened on an earlier date; every other bucket keeps its
\* value, and a call that closes no transition changes no bucket.
C4_DailyAttribution ==
    [][ \A d \in Devices, s \in Status :
           update_status(d, s)
           => \A date \in DOMAIN daily_records \cup DOMAIN daily_records' \cup {strftime(clock)} :
                 \A dev \in Devices, st \in Status :
                    DailySeconds(daily_records', date, dev, st)
                      = DailySeconds(daily_records, date, dev, st)
                        + (IF /\ d \in DOMAIN current_status
                              /\ date = strftime(clock)
                              /\ dev = d
                              /\ st = current_status[d].status
                           THEN OpenElapsed(current_status, d, clock) ELSE 0) ]_vars

\* a bucket of today holds more seconds than have passed since midnight: a
\* transition opened yesterday was closed today
C4_Witness ==
    /\ clock >= SecondsPerDay
    /\ \E d \in DOMAIN track, st \in Status :
          DailySeconds(daily_records, strftime(clock), d, st) > clock % SecondsPerDay
    /\ \E date \in DOMAIN daily_records : date # strftime(clock)

(***************************************************************************)
(* C5  Query purity                                                        *)
(***************************************************************************)
\* C5: get_device_stats, for any device name, leaves the cumulative table (key
\* set and values), the daily table and the transition table as they were, and
\* does not change the set of devices reported by get_all_devices_stats.
C5_QueryPurity ==
    [][ \A d \in Devices :
           get_device_stats(d)
           => /\ history' = history
              /\ daily_records' = daily_records
              /\ current_status' = current_status
              /\ AllDevices(current_status', history')
                   = AllDevices(current_status, history) ]_vars

(***************************************************************************)
(* C6  Round-trip persistence                                              *)
(***************************************************************************)
\* the data file holds a complete snapshot of the ledger as it is now
SavedNow ==
    /\ savePc = "idle"
    /\ disk[data_file].exists
    /\ LET c == disk[data_file].content
           b == BuildData(start_time, clock, history, daily_records)
       IN  /\ Len(c) = Len(b)
           /\ c[1] = b[1]
           /\ c[3] = b[3]
           /\ c[4] = b[4]

\* C6: when save_data has written the ledger and a new ledger is constructed
\* on the same file, the new ledger has the same cumulative durations, the
\* same daily records and the same start_time as the saving one.
C6_RoundTrip ==
    [][ (Restart /\ SavedNow)
        => /\ history' = history
           /\ daily_records' = daily_records
           /\ start_time' = start_time ]_vars

\* a ledger constructed from a file that holds what an earlier ledger
\* recorded for PI-65 in this behaviour: more than the file of the earlier
\* run, or anything when there was no such file
C6_Witness ==
    /\ SavedNow
    /\ current_status = EmptyDict
    /\ \E st \in Status :
          /\ HistSeconds(history, "PI-65", st) > 0
          /\ HistSeconds(history, "PI-65", st)
               # HistSeconds(LoadHistory(json_load(PreviousRun).val), "PI-65", st)
    /\ \E date \in DOMAIN daily_records : "PI-65" \in DOMAIN daily_records[date]
    /\ start_time < clock

(***************************************************************************)
(* C7  Crash-safe persist                                                  *)
(***************************************************************************)
\* the file is absent or holds complete JSON
Complete(f) == f.exists => json_load(f).some

\* C7: at every step of save_data, and when the process ends at any of them,
\* the data file is absent or complete; it changes only by being replaced, in
\* one step, by the complete new snapshot; and a new ledger loads what it
\* would load if no temporary file were there.
C7_CrashSafe ==
    [][ /\ Complete(disk'[data_file])
        /\ disk'[data_file] # disk[data_file]
           => /\ savePc = "writing"
              /\ Len(pending) = Len(FileKeys)
              /\ disk'[data_file] = [exists |-> TRUE, content |-> pending]
        /\ Restart
           => LET noTemp == [path \in Paths |->
                               IF path = data_file THEN disk[path] ELSE AbsentFile]
              IN  /\ history' = Constructed(noTemp, clock).history
                  /\ daily_records' = Constructed(noTemp, clock).daily_records
                  /\ start_time' = Constructed(noTemp, clock).start_time ]_vars

\* the process ended while the temporary file was half written, over the file
\* of the earlier run, and a new ledger has been constructed
C7_Witness ==
    /\ savePc = "idle"
    /\ disk[temp_file].exists
    /\ Len(disk[temp_file].content) \in 1..(Len(FileKeys) - 1)
    /\ disk[data_file] = PreviousRun
    /\ history = Constructed(disk, clock).history

(***************************************************************************)
(* C8  since                                                               *)
(***************************************************************************)
\* C8 as stated: the since of a device never decreases from one update_status
\* call to the next, also when the call comes at a time earlier than since.
C8_SinceMonotone ==
    [][ \A d \in Devices, s \in Status :
           (update_status(d, s) /\ d \in DOMAIN current_status)
           => current_status'[d].since >= current_status[d].since ]_vars

\* C8 amended: every update_status call sets the since of the device to the
\* time of the call; so since does not decrease when the call comes at a time
\* not earlier than the stored since, and it decreases, to the time of the
\* call, when the call comes at an earlier time.
C8_SinceIsNow ==
    [][ \A d \in Devices, s \in Status :
           update_status(d, s)
           => /\ current_status'[d].since = clock
              /\ d \in DOMAIN current_status
                 => (current_status'[d].since >= current_status[d].since
                       <=> clock >= current_status[d].since) ]_vars

\* a device whose since is earlier than the time of its first call
C8_Witness ==
    \E d \in DOMAIN track :
        track[d].regressed /\ current_status[d].since < track[d].first

(***************************************************************************)
(* C9  Cumulative durations do not decrease                                *)
(***************************************************************************)
\* C9: in every step of the ledger that is not a reset_stats, no cumulative
\* duration decreases; only update_status changes one.  (Restart is the
\* construction of another ledger and not a step of this one.)
C9_CumulativeMonotone ==
    [][ \/ \E a \in ResetArgs : reset_stats(a)
        \/ Restart
        \/ /\ \A d \in Devices, s \in Status :
                 HistSeconds(history', d, s) >= HistSeconds(history, d, s)
           /\ (\A d \in Devices, s \in Status : ~update_status(d, s))
              => \A d \in Devices, s \in Status :
                    HistSeconds(history', d, s) = HistSeconds(history, d, s) ]_vars

\* a total has grown in this run and a save is writing it
C9_Witness ==
    /\ savePc = "writing"
    /\ budget.records = 0
    /\ \E d \in DOMAIN track :
          SumHistory(history, d) > track[d].base

(***************************************************************************)
(* C10  reset_stats with a device name                                     *)
(***************************************************************************)
\* C10: reset_stats(d) with a device name d sets the three cumulative totals
\* of d to zero and removes its transition; the daily records of every device,
\* the cumulative totals and transitions of every other device and start_time
\* stay as they were.  (Device names are non-empty strings.)
C10_ResetDevice ==
    [][ \A d \in Devices :
           reset_stats(Some(d))
           => /\ \A st \in Status : HistSeconds(history', d, st) = 0
              /\ d \notin DOMAIN current_status'
              /\ daily_records' = daily_records
              /\ DOMAIN history' \ {d} = DOMAIN history \ {d}
              /\ \A e \in DOMAIN history \ {d} : history'[e] = history[e]
              /\ DOMAIN current_status' = DOMAIN current_status \ {d}
              /\ \A e \in DOMAIN current_status \ {d} :
                    current_status'[e] = current_status[e]
              /\ start_time' = start_time ]_vars

\* PI-65 has been reset after it accumulated time in this run, its daily
\* buckets are still there and the save of reset_stats is writing; PI-66 has
\* its totals
C10_Witness ==
    /\ savePc = "writing"
    /\ budget.records = 0
    /\ "PI-65" \in DOMAIN history
    /\ SumHistory(history, "PI-65") = 0
    /\ "PI-65" \notin DOMAIN current_status
    /\ \E date \in DOMAIN daily_records :
          /\ date # strftime(ClockStart - 5)
          /\ "PI-65" \in DOMAIN daily_records[date]
    /\ \E date \in DOMAIN daily_records :
          /\ "PI-65" \in DOMAIN daily_records[date]
          /\ \E st \in Status : daily_records[date]["PI-65"][st] > 0
    /\ SumHistory(history, "PI-66") > 0

(***************************************************************************)
(* C11  reset_stats saves                                                  *)
(***************************************************************************)
\* the data of a save in progress is the ledger as it is
PendingIsLedger ==
    LET b == BuildData(start_time, clock, history, daily_records)
    IN  /\ Len(pending) = Len(b)
        /\ pending[1] = b[1]
        /\ pending[3] = b[3]
        /\ pending[4] = b[4]

\* C11: reset_stats, with or without a device, calls save_data on the tables
\* as they are after the reset; when the write succeeds the data file holds
\* the history and the daily records of the ledger as reset, and a ledger
\* constructed on it gets these tables and not those of before the reset;
\* after a reset without a device both tables are empty and start_time is the
\* time of the reset.
C11_ResetPersists ==
    [][ /\ \A a \in ResetArgs :
              reset_stats(a)
              => /\ savePc' = "writing"
                 /\ pending' = BuildData(start_time', clock, history', daily_records')
                 /\ ~Truthy(a) => /\ history' = EmptyDict
                                  /\ daily_records' = EmptyDict
                                  /\ current_status' = EmptyDict
                                  /\ start_time' = clock
        /\ savePc' = "writing" => PendingIsLedger'
        /\ save_replace
           => /\ SavedNow'
              /\ returned' = Some(TRUE)
              /\ Constructed(disk', clock').history = history'
              /\ Constructed(disk', clock').daily_records = daily_records'
              /\ Constructed(disk', clock').start_time = start_time' ]_vars

\* every update_status call was made, then reset_stats() was called at a time
\* after the construction, and its save is complete
C11_Witness ==
    /\ SavedNow
    /\ returned = Some(TRUE)
    /\ budget.records = 0
    /\ budget.disk = LoadMaxDiskOps - 1
    /\ history = EmptyDict
    /\ daily_records = EmptyDict
    /\ current_status = EmptyDict
    /\ start_time > ClockStart

(***************************************************************************)
(* C12  A device the ledger does not know                                  *)
(***************************************************************************)
\* the device has no transition and no cumulative time: it was never
\* recorded and no history was loaded for it
Unknown(d) ==
    /\ d \notin DOMAIN current_status
    /\ \A st \in Status : HistSeconds(history, d, st) = 0

ZeroStats ==
    [running |-> "00:00:00", online |-> "00:00:00", offline |-> "00:00:00",
     running_seconds |-> 0, online_seconds |-> 0, offline_seconds |-> 0,
     current_status |-> "offline", current_duration |-> "00:00:00"]

\* C12: for a device that was never recorded and has no loaded history,
\* get_device_stats returns three totals of zero, current status offline and
\* current duration zero; reset_stats(device) goes on to its save_data without
\* an error and leaves the entries of every other device, and every daily
\* record, as they were.
C12_UnknownDevice ==
    [][ \A d \in Devices :
           /\ (get_device_stats(d) /\ Unknown(d))
              => DeviceStats(current_status, history, d, clock) = ZeroStats
           /\ (reset_stats(Some(d)) /\ Unknown(d))
              => /\ savePc' = "writing"
                 /\ \A e \in Devices \ {d} :
                       /\ e \in DOMAIN history' <=> e \in DOMAIN history
                       /\ e \in DOMAIN history => history'[e] = history[e]
                       /\ e \in DOMAIN current_status' <=> e \in DOMAIN current_status
                       /\ e \in DOMAIN current_status
                          => current_status'[e] = current_status[e]
                 /\ daily_records' = daily_records ]_vars

\* get_device_stats was called for PI-66, which no file and no call made
\* known, and reset_stats is saving, while PI-65 has a transition
C12_Witness ==
    /\ savePc = "writing"
    /\ "PI-65" \in DOMAIN current_status
    /\ daily_records = EmptyDict
    /\ "PI-66" \in DOMAIN history
    /\ Unknown("PI-66")

(***************************************************************************)
(* C13  save_data on a disk that fails                                     *)
(***************************************************************************)
\* C13: when a disk call of save_data fails (the open or the write of the
\* temporary file, or the replace), save_data returns False and raises
\* nothing, the three tables are as before, and the data file is what it was;
\* a later save_data that succeeds writes the whole ledger as it is then.
C13_PersistFailure ==
    [][ /\ (save_fail \/ save_open_fail)
           => /\ returned' = Some(FALSE)
              /\ savePc' = "idle"
              /\ history' = history
              /\ daily_records' = daily_records
              /\ current_status' = current_status
              /\ disk'[data_file] = disk[data_file]
        /\ (savePc = "writing" /\ savePc' = "writing")
           => disk'[data_file] = disk[data_file]
        /\ (save_replace /\ returned = Some(FALSE))
           => /\ returned' = Some(TRUE)
              /\ disk'[data_file].content
                   = <<pending[1], pending[2], pending[3], pending[4]>>
              /\ SavedNow' ]_vars

\* a save has failed with the temporary file half written, over the file of
\* the earlier run, after PI-65 was recorded
C13_Witness ==
    /\ returned = Some(FALSE)
    /\ savePc = "idle"
    /\ Len(disk[temp_file].content) \in 1..(Len(FileKeys) - 1)
    /\ disk[data_file] = PreviousRun
    /\ "PI-65" \in DOMAIN current_status

(***************************************************************************)
(* C14  load_data, section by section                                      *)
(***************************************************************************)
\* the value of a section of a file that parses
SectionValue(f, key) == json_load(f).val[key]

\* C14: load_data loads every well-formed section of a data file that parses,
\* whatever the other sections are: with a malformed daily_records section
\* the history and the start_time are loaded, with a malformed history
\* section the daily records and the start_time are loaded.
C14_FieldByField ==
    [][ (Restart /\ disk[data_file].exists /\ json_load(disk[data_file]).some)
        => LET f == disk[data_file]
           IN  /\ ~IsArray(SectionValue(f, "history"))
                  => history' = LoadHistory([history |-> SectionValue(f, "history")])
               /\ ~IsArray(SectionValue(f, "daily_records"))
                  => daily_records'
                       = LoadDaily([daily_records |-> SectionValue(f, "daily_records")])
               /\ start_time' = fromisoformat(SectionValue(f, "start_time")) ]_vars

(***************************************************************************)
(* C15  No data file, or one that does not parse                           *)
(***************************************************************************)
\* the text of the file ends before the JSON object is complete
Unparseable(f) == f.exists /\ Len(f.content) < Len(FileKeys)

\* C15: when the data file is absent or is not JSON, the construction of the
\* ledger completes, the three tables are empty and start_time is the time
\* of the construction.
C15_MissingFile ==
    [][ (Restart /\ (~disk[data_file].exists \/ Unparseable(disk[data_file])))
        => /\ history' = EmptyDict
           /\ daily_records' = EmptyDict
           /\ current_status' = EmptyDict
           /\ start_time' = clock
           /\ savePc' = "idle" ]_vars

\* a ledger constructed, after the first one had recorded, on a data file
\* that is cut off
C15_Witness ==
    /\ Unparseable(disk[data_file])
    /\ budget.records < LoadMaxRecords
    /\ budget.disk < LoadMaxDiskOps
    /\ current_status = EmptyDict
    /\ history = EmptyDict
    /\ start_time = clock
    /\ start_time > ClockStart

(***************************************************************************)
(* C16  The lock and the disk calls of save_data                           *)
(***************************************************************************)
\* C16 as stated: no thread holds the lock while a disk write of save_data is
\* in flight, so that a thread that waits to enter update_status or
\* get_device_stats can take the lock then.
C16_LockFreeDuringDisk ==
    savePc = "writing"
    => /\ lock.count = 0
       /\ \A u \in Threads :
             (thread[u].pc = "enter" /\ thread[u].outer = "") => CanAcquire(lock, u)

\* C16 amended: the lock IS held across the disk calls of save_data: the
\* thread that saves builds the data, writes the temporary file and replaces
\* the data file while it owns the lock (twice over when reset_stats called
\* save_data), and another thread takes the lock only when no disk write is
\* in flight.
C16_LockHeldDuringDisk ==
    [][ /\ savePc' = "writing"
           => \E t \in Threads :
                 /\ lock'.owner = t
                 /\ lock'.count >= 1
                 /\ thread'[t].op = "save_data"
                 /\ thread'[t].pc = "dump"
        /\ \A u \in Threads : Enter(u) => savePc = "idle" ]_vars

\* a thread is writing the temporary file while the other has called
\* update_status and waits for the lock
C16_Witness ==
    \E t \in Threads, u \in Threads :
        /\ savePc = "writing"
        /\ Len(disk[temp_file].content) > 0
        /\ lock = [owner |-> t, count |-> 1]
        /\ thread[u].pc = "enter"
        /\ thread[u].op = "update_status"

(***************************************************************************)
(* C17  Mutual exclusion                                                   *)
(***************************************************************************)
\* the thread is inside a with self._lock block
InSection(t) == thread[t].pc \notin {"idle", "enter"}

\* C17: a thread that is inside the body of update_status, get_device_stats,
\* get_all_devices_stats, get_all_daily_records, save_data or reset_stats
\* owns the lock; at most one thread is inside a body at any time; and every
\* step that changes the cumulative, the daily or the transition table is a
\* step of the thread that owns the lock.  A thread that finds the lock taken
\* waits: its call is not refused.
C17_MutualExclusion ==
    [][ /\ \A t \in Threads :
              InSection(t)' => (lock'.owner = t /\ lock'.count > 0)
        /\ \A t \in Threads, u \in Threads :
              (InSection(t)' /\ InSection(u)') => t = u
        /\ <<current_status, history, daily_records>>'
              # <<current_status, history, daily_records>>
           => \E t \in Threads :
                 /\ lock.owner = t
                 /\ InSection(t)
                 /\ thread'[t] # thread[t] ]_vars

\* a thread is between the read and the write of update_status while the
\* other has called update_status for the same device and waits
C17_Witness ==
    \E t \in Threads, u \in Threads :
        /\ thread[t].op = "update_status"
        /\ thread[t].pc = "write"
        /\ thread[u].op = "update_status"
        /\ thread[u].pc = "enter"
        /\ thread[u].device = thread[t].device

(***************************************************************************)
(* C18  Every call returns                                                 *)
(***************************************************************************)
\* C18: under fair scheduling every method that a thread has called returns
\* and the thread then holds the lock no more, whatever the other threads
\* do; also get_all_devices_stats and reset_stats, which take the lock a
\* second time, and update_status when KeyError leaves it.
C18_EveryCallReturns ==
    \A t \in Threads :
        (thread[t].pc # "idle") ~> (thread[t].pc = "idle" /\ lock.owner # t)

\* a thread holds the lock twice, in save_data called by reset_stats, while
\* the other thread waits for it
C18_Witness ==
    \E t \in Threads, u \in Threads :
        /\ lock = [owner |-> t, count |-> 2]
        /\ thread[t].outer = "reset_stats"
        /\ savePc = "writing"
        /\ thread[u].pc = "enter"
        /\ thread[u].op = "get_all_devices_stats"

(***************************************************************************)
(* C19  update_status calls of several threads on one device               *)
(***************************************************************************)
\* C19: the writes of an update_status call change the three tables as the
\* whole call, run alone at its time now on the tables as they are then,
\* would; no other thread takes the lock while a thread is inside
\* update_status; so calls of several threads take effect one after another
\* in the order in which they took the lock, and the transition of the
\* device is the one written by the call that took the lock last.
C19_Linearized ==
    [][ \A t \in Threads :
           /\ update_status_write(t)
              => LET r == Recorded(current_status, history, daily_records,
                                   thread[t].device, thread[t].status, thread[t].now)
                 IN  /\ lock.owner = t
                     /\ history' = r.history
                     /\ daily_records' = r.daily_records
                     /\ current_status' = r.current_status
                     /\ ~r.raised
                        => current_status'[thread[t].device]
                             = [status |-> thread[t].status, since |-> thread[t].now]
           /\ (thread[t].op = "update_status" /\ InSection(t))
              => \A u \in Threads : ~Enter(u) ]_vars

\* a thread has written the transition of PI-65 and still owns the lock,
\* the other thread has called update_status for PI-65 and waits, and the
\* clock has moved on
C19_Witness ==
    \E t \in Threads, u \in Threads :
        /\ thread[t].op = "update_status"
        /\ thread[t].pc = "exit"
        /\ thread[t].device = "PI-65"
        /\ "PI-65" \in DOMAIN current_status
        /\ current_status["PI-65"].since = thread[t].now
        /\ thread[u].op = "update_status"
        /\ thread[u].pc = "enter"
        /\ thread[u].device = "PI-65"
        /\ clock > thread[t].now

(***************************************************************************)
(* C20  update_status and the other devices                                *)
(***************************************************************************)
\* the entries of one device in the cumulative or the transition table
OnlyDevice(table, d) == [e \in DOMAIN table \cap {d} |-> table[e]]

\* the daily buckets of one device
OnlyDeviceDaily(dr, d) ==
    [date \in {x \in DOMAIN dr : d \in DOMAIN dr[x]} |-> [e \in {d} |-> dr[date][e]]]

\* C20: the writes of update_status(d1, ...) leave the cumulative entry, the
\* transition and every daily bucket of every other device as they were, and
\* what they make of the entries of d1 depends on the entries of d1, the new
\* status and the time of the call only; so the entries of a device are the
\* same however calls for other devices are interleaved with its own.
C20_CrossDevice ==
    [][ \A t \in Threads :
           update_status_write(t)
           => LET d1 == thread[t].device
                  alone == Recorded(OnlyDevice(current_status, d1),
                                    OnlyDevice(history, d1),
                                    OnlyDeviceDaily(daily_records, d1),
                                    d1, thread[t].status, thread[t].now)
              IN  /\ \A d2 \in Devices \ {d1} :
                        /\ OnlyDevice(history', d2) = OnlyDevice(history, d2)
                        /\ OnlyDevice(current_status', d2) = OnlyDevice(current_status, d2)
                        /\ OnlyDeviceDaily(daily_records', d2)
                             = OnlyDeviceDaily(daily_records, d2)
                  /\ OnlyDevice(history', d1) = alone.history
                  /\ OnlyDevice(current_status', d1) = alone.current_status
                  /\ OnlyDeviceDaily(daily_records', d1) = alone.daily_records ]_vars

\* a thread has written the transition of one device and still owns the
\* lock, the other thread has called update_status for the other device
C20_Witness ==
    \E t \in Threads, u \in Threads :
        /\ thread[t].op = "update_status"
        /\ thread[t].pc = "exit"
        /\ thread[t].device \in DOMAIN current_status
        /\ thread[u].op = "update_status"
        /\ thread[u].pc = "enter"
        /\ thread[u].device # thread[t].device
        /\ SumHistory(history, thread[u].device) > 0

(***************************************************************************)
(* C21.  save_data writes a consistent snapshot and loses no update: the   *)
(* history and the daily_records of the file that one save_data puts in    *)
(* place are those of one state of the ledger, the state at that moment,   *)
(* which holds every update_status that completed before; no update_status *)
(* takes effect between the building of data and os.replace; and an        *)
(* update_status that waits while save_data runs stays a pending call and  *)
(* then changes the tables as one executed alone.                          *)
(***************************************************************************)
FileTables == <<disk[data_file].content[3].value, disk[data_file].content[4].value>>

LedgerTables ==
    LET b == BuildData(start_time, clock, history, daily_records)
    IN  <<b[3].value, b[4].value>>

C21_ConsistentSnapshot ==
    [][\A t \in Threads :
          /\ save_data_replace(t) => FileTables' = LedgerTables'
          /\ (thread[t].op = "save_data" /\ thread[t].pc = "dump")
                => /\ history' = history
                   /\ daily_records' = daily_records
                   /\ current_status' = current_status
          /\ (thread[t].op = "update_status" /\ thread[t].pc = "enter")
                => /\ thread'[t].op = "update_status"
                   /\ thread'[t].pc \in {"enter", "body"}
                   /\ thread'[t].device = thread[t].device
                   /\ thread'[t].status = thread[t].status]_vars

\* a file put in place by save_data that holds the ledger's tables, while
\* the other thread's update_status has arrived and waits for the lock
C21_Witness ==
    \E t \in Threads : \E u \in Threads \ {t} :
        /\ thread[t].op = "save_data"
        /\ thread[t].pc = "exit"
        /\ returned = Some(TRUE)
        /\ thread[u].op = "update_status"
        /\ thread[u].pc = "enter"
        /\ FileTables = LedgerTables

C25_RecordDoesNotPersist ==
    [][/\ \A d \in Devices, s \in Status :
            update_status(d, s) => /\ disk' = disk
                                   /\ savePc' = savePc
                                   /\ pending' = pending
       /\ disk'[data_file] # disk[data_file] => save_replace
       /\ (savePc = "idle" /\ savePc' = "writing")
            => (save_begin \/ \E a \in ResetArgs : reset_stats(a))]_vars

\* a data file written by this run, and a later update_status that has
\* added time to the cumulative table: the file does not hold it
C25_Witness ==
    /\ savePc = "idle"
    /\ disk[data_file].exists
    /\ \E d \in Polled :
          /\ d \in DOMAIN current_status
          /\ current_status[d].since = clock
          /\ SumHistory(history, d) > 0
          /\ FileTables[1] # LedgerTables[1]

(***************************************************************************)
(* C27.  reset_stats called with a device name is scoped to that name for  *)
(* every string, the empty string included: the daily table, the totals    *)
(* and transitions of the other devices and start_time are left as they    *)
(* are.  Only the call without a name resets them.                         *)
(***************************************************************************)
Names == Devices \cup {""}

C27_ScopedToName ==
    [][\A name \in Names :
          reset_stats(Some(name))
          => /\ daily_records' = daily_records
             /\ \A e \in DOMAIN history \ {name} :
                   e \in DOMAIN history' /\ history'[e] = history[e]
             /\ \A e \in DOMAIN current_status \ {name} :
                   e \in DOMAIN current_status' /\ current_status'[e] = current_status[e]
             /\ start_time' = start_time]_vars

(***************************************************************************)
(* C24.  Open transitions are not persisted: a ledger constructed on the   *)
(* data file has no transition, get_device_stats reports 'offline' with a  *)
(* current duration of zero for every device, and when the file is the one *)
(* save_data wrote from the old ledger, the tables of the new ledger are   *)
(* the old ones: the time elapsed in the transitions that were open is in  *)
(* neither the cumulative nor the daily table, and the sum reported for a  *)
(* device is smaller by that time.                                         *)
(***************************************************************************)
C24_TransitionsNotPersisted ==
    [][Restart =>
         /\ current_status' = EmptyDict
         /\ \A d \in Devices :
               LET st == DeviceStats(current_status', history', d, clock')
               IN  /\ st.current_status = "offline"
                   /\ st.current_duration = format_timedelta(Timedelta(0))
         /\ SavedNow =>
               \A d \in Devices :
                  /\ \A s \in Status :
                        /\ HistSeconds(history', d, s) = HistSeconds(history, d, s)
                        /\ \A date \in DOMAIN daily_records \cup DOMAIN daily_records' :
                              DailySeconds(daily_records', date, d, s)
                                = DailySeconds(daily_records, date, d, s)
                  /\ StatsSum(d)' = StatsSum(d) - OpenElapsed(current_status, d, clock)]_vars

\* a ledger constructed on a file that an earlier ledger, which had made
\* one update_status and so held nothing but an open transition, saved: no
\* transition and no time in any table, although time has passed
C24_Witness ==
    /\ budget.records = RunMaxRecords - 1
    /\ budget.disk = RunMaxDiskOps - 2
    /\ returned = None
    /\ savePc = "idle"
    /\ disk[data_file].exists
    /\ disk[data_file].content[2].value # isoformat(ClockStart)
    /\ current_status = EmptyDict
    /\ clock > ClockStart
    /\ \A d \in Devices : SumHistory(history, d) = 0
    /\ daily_records = EmptyDict

(***************************************************************************)
(* C28.  In every state reached from an empty ledger by update_status,     *)
(* get_device_stats, save_data, reset_stats and restarts, the daily        *)
(* seconds of a device and status added over all dates are at least the    *)
(* cumulative seconds of that device and status.  The two are equal at the *)
(* start; every one of these operations but reset_stats of that device     *)
(* keeps them equal, the restart being a load of what save_data has        *)
(* written from the ledger as it is; and a full reset makes them equal     *)
(* again.                                                                  *)
(***************************************************************************)
RECURSIVE DailyTotalOver(_, _, _, _)
DailyTotalOver(dr, dates, device, status) ==
    IF dates = {} THEN 0
    ELSE LET date == CHOOSE x \in dates : TRUE
         IN  DailySeconds(dr, date, device, status)
               + DailyTotalOver(dr, dates \ {date}, device, status)

\* the daily seconds of (device, status) over all dates of the daily table
DailyTotal(device, status) ==
    DailyTotalOver(daily_records, DOMAIN daily_records, device, status)

C28_DailyCoversCumulative ==
    /\ [](\A d \in Devices, s \in Status : DailyTotal(d, s) >= HistSeconds(history, d, s))
    /\ [][\A d \in Devices, s \in Status :
            /\ (/\ DailyTotal(d, s) = HistSeconds(history, d, s)
                /\ ~reset_stats(Some(d))
                /\ Restart => SavedNow)
                  => DailyTotal(d, s)' = HistSeconds(history', d, s)
            /\ reset_stats(None) => DailyTotal(d, s)' = HistSeconds(history', d, s)]_vars

\* time recorded for a device, saved and loaded by a new ledger, with the
\* daily seconds equal to the cumulative ones and not zero
C28_Witness ==
    \E d \in Polled, s \in Status :
        /\ returned = None
        /\ budget.disk < RunMaxDiskOps
        /\ HistSeconds(history, d, s) > 0
        /\ DailyTotal(d, s) = HistSeconds(history, d, s)
        /\ disk[data_file].exists

(***************************************************************************)
(* C26.  update_status is all-or-nothing: when it raises, because the old  *)
(* status has no key in the device's cumulative entry or in its daily      *)
(* entry of today, the cumulative table, the daily table and the           *)
(* transition of the device are as before the call.                        *)
(***************************************************************************)
C26_AllOrNothing ==
    [][\A d \in Devices, s \in AnyStatus :
          (/\ update_status(d, s)
           /\ Recorded(current_status, history, daily_records, d, s, clock).raised)
          => /\ history' = history
             /\ daily_records' = daily_records
             /\ current_status' = current_status]_vars

(***************************************************************************)
(* C22.  get_all_daily_records returns an isolated deep copy: the mapping  *)
(* returned has the content of the daily table; no write of the caller to  *)
(* it, at the level of a date, a device or a status, changes the daily     *)
(* table or what a later get_all_daily_records returns; and no later       *)
(* update_status changes the mapping the caller holds.                     *)
(***************************************************************************)
C22_IsolatedCopy ==
    [][/\ get_all_daily_records => Held(copied'.val, daily_records') = daily_records
       /\ \A level \in WriteLevels, date \in {strftime(c) : c \in ClockValues},
             d \in Devices, s \in Status :
             caller_writes(level, date, d, s)
             => /\ daily_records' = daily_records
                /\ Held(DeepCopy(daily_records'), daily_records')
                     = Held(DeepCopy(daily_records), daily_records)
       /\ \A d \in Devices, s \in Status :
             (update_status(d, s) /\ copied.some)
             => Held(copied'.val, daily_records') = Held(copied.val, daily_records)]_vars

\* the caller has written to the mapping it was given, and an update_status
\* after that has added a date to the daily table: the two differ both ways
C22_Witness ==
    /\ copied.some
    /\ budget.calls < CopyMaxWrites
    /\ \E date \in DOMAIN daily_records : date \notin DOMAIN copied.val.own
    /\ \E date \in DOMAIN copied.val.own :
          /\ date \in DOMAIN daily_records
          /\ Held(copied.val, daily_records)[date] # daily_records[date]

(***************************************************************************)
(* C29.  update_status reads the clock after it has acquired the lock, so  *)
(* with a clock that does not go back the times of the successive          *)
(* update_status calls of a device do not decrease in the order in which   *)
(* the calls acquire the lock: no elapsed time is clamped away, and        *)
(* conservation holds under every interleaving of concurrent calls.        *)
(***************************************************************************)
\* now is read inside the with block, no transition is later than it, and
\* the duration is the whole elapsed time
ClockReadUnderLock ==
    [][\A t \in Threads :
          update_status_read(t)
          => /\ lock.owner = t
             /\ thread'[t].now = clock
             /\ thread[t].device \in DOMAIN current_status
                  => /\ clock >= current_status[thread[t].device].since
                     /\ thread'[t].old.val.duration
                          = Timedelta(clock - current_status[thread[t].device].since)]_vars

\* C29 as stated: the sum of the cumulative totals plus the open elapsed
\* time is the time since the first update_status of the device
C29_ConservationFromZero ==
    /\ ClockReadUnderLock
    /\ [](\A d \in DOMAIN track :
            /\ ~track[d].regressed
            /\ clock >= current_status[d].since
            /\ SumHistory(history, d) + (clock - current_status[d].since)
                 = clock - track[d].first)

\* C29 amended: ... is the time since the first update_status of the device
\* plus the sum of the cumulative totals the device had at that call
C29_Conservation ==
    /\ ClockReadUnderLock
    /\ [](\A d \in DOMAIN track :
            /\ ~track[d].regressed
            /\ clock >= current_status[d].since
            /\ SumHistory(history, d) + (clock - current_status[d].since)
                 = clock - track[d].first + track[d].base)

\* an update_status of one thread has closed, with its whole duration, the
\* transition that the update_status of the other thread opened; the device
\* had totals from the data file
C29_Witness ==
    \E t \in Threads :
        /\ thread[t].op = "update_status"
        /\ thread[t].pc = "exit"
        /\ ~thread[t].raised
        /\ thread[t].old.some
        /\ total_seconds(thread[t].old.val.duration) > 0
        /\ budget.calls = 0
        /\ thread[t].device \in DOMAIN track
        /\ track[thread[t].device].base > 0
        /\ track[thread[t].device].first < thread[t].now

(***************************************************************************)
(* C30.  Eventual durability: with the auto-save thread running for ever   *)
(* and save_data not failing for ever, every duration that a completed     *)
(* update_status added to the cumulative and the daily table is in the     *)
(* data file at some later time (no reset takes place here); and a         *)
(* save_data that failed is followed by one that succeeds, the loop goes   *)
(* on.                                                                     *)
(***************************************************************************)
\* the data file lacks seconds that a table of the ledger holds
Ahead ==
    \/ ~disk[data_file].exists
    \/ \E d \in Devices, s \in Status :
          \/ HistSeconds(history, d, s)
               > (IF d \in DOMAIN FileTables[1] THEN FileTables[1][d][s] ELSE 0)
          \/ \E date \in DOMAIN daily_records :
               DailySeconds(daily_records, date, d, s)
                 > DailySeconds(FileTables[2], date, d, s)

C30_EventualDurability ==
    /\ Ahead ~> ~Ahead
    /\ (returned = Some(FALSE)) ~> (returned = Some(TRUE))

\* the data file holds the time that update_status added in this run, after
\* a save_data that succeeded
C30_Witness ==
    /\ ~Ahead
    /\ returned = Some(TRUE)
    /\ savePc = "idle"
    /\ \E d \in DOMAIN track : SumHistory(history, d) > track[d].base

====
